---- MODULE Spec2Model ----
(***************************************************************************)
(* A model of the DNS message codec of src/src/packet.rs: the fixed 512    *)
(* byte BytePacketBuffer with its cursor, the name codec (read_qname /     *)
(* write_qname), the header codec, the record codec, DnsPacket encode and  *)
(* decode, and the name-server helper queries.                             *)
(*                                                                         *)
(* A buffer value is a record [buf, pos, st, val, str]: buf and pos are    *)
(* the two fields of BytePacketBuffer, st is the outcome of the call       *)
(* sequence so far ("ok", the text of an Err that `?` propagates, or       *)
(* "panic" for an out-of-range array index, which aborts the thread), val  *)
(* is the number, wide the u32 and str the bytes or string the last read   *)
(* returned.  Strings are sequences of code points; a u32 is the pair of   *)
(* its 16-bit halves.                                                      *)
(***************************************************************************)
EXTENDS Integers, Sequences, FiniteSets, TLC

VARIABLES pc, input, buffer, packet, result, qn

vars == <<pc, input, buffer, packet, result, qn>>

\* BytePacketBuffer::BUF_LEN
BUF_LEN == 512

\* max_jumps of read_qname
max_jumps == 5

EndOfBuffer == "End of buffer"
JumpLimit == "Limit of 5 jumps exceeded"
LabelTooLong == "Single label exceeds 63 characters of length"
Panic == "panic"

Pow2(n) == 2 ^ n

\* bit k of a
Bit(a, k) == (a \div Pow2(k)) % 2

\* a | b on 16-bit operands
BitOr(a, b) ==
  LET m(k) == IF Bit(a, k) = 1 \/ Bit(b, k) = 1 THEN Pow2(k) ELSE 0
  IN (((m(0) + m(1)) + (m(2) + m(3))) + ((m(4) + m(5)) + (m(6) + m(7))))
     + (((m(8) + m(9)) + (m(10) + m(11)))
        + ((m(12) + m(13)) + (m(14) + m(15))))

\* a & b on 16-bit operands
BitAnd(a, b) ==
  LET m(k) == IF Bit(a, k) = 1 /\ Bit(b, k) = 1 THEN Pow2(k) ELSE 0
  IN (((m(0) + m(1)) + (m(2) + m(3))) + ((m(4) + m(5)) + (m(6) + m(7))))
     + (((m(8) + m(9)) + (m(10) + m(11)))
        + ((m(12) + m(13)) + (m(14) + m(15))))

\* a ^ b on 16-bit operands
BitXor(a, b) ==
  LET m(k) == IF Bit(a, k) # Bit(b, k) THEN Pow2(k) ELSE 0
  IN (((m(0) + m(1)) + (m(2) + m(3))) + ((m(4) + m(5)) + (m(6) + m(7))))
     + (((m(8) + m(9)) + (m(10) + m(11)))
        + ((m(12) + m(13)) + (m(14) + m(15))))

\* `x as u8`
AsU8(x) == x % 256

\* `x as u16`
AsU16(x) == x % 65536

\* `flag as u8`
BoolU8(f) == IF f THEN 1 ELSE 0

\* an index the array buf: [u8; 512] accepts; any other index panics
InBounds(i) == i \in 0 .. (BUF_LEN - 1)

(***************************************************************************)
(* BytePacketBuffer                                                        *)
(***************************************************************************)

\* self.buf[i]; the array is kept as the sequence of its 512 bytes, the
\* byte of index i at place i + 1
byte(buf, i) == buf[i + 1]

\* BytePacketBuffer::new
new ==
  [buf |-> [i \in 1 .. BUF_LEN |-> 0], pos |-> 0, st |-> "ok", val |-> 0,
   wide |-> <<0, 0>>, str |-> <<>>]

\* BytePacketBuffer::step
step(b, steps) ==
  IF b.st # "ok" THEN b ELSE [b EXCEPT !.pos = b.pos + steps]

\* BytePacketBuffer::seek
seek(b, p) ==
  IF b.st # "ok" THEN b ELSE [b EXCEPT !.pos = p]

\* BytePacketBuffer::set
set(b, p, v) ==
  IF b.st # "ok" THEN b
  ELSE IF ~InBounds(p) THEN [b EXCEPT !.st = Panic]
  ELSE [b EXCEPT !.buf[p + 1] = v]

\* BytePacketBuffer::set_u16
set_u16(b, p, v) ==
  set(set(b, p, AsU8(v \div 256)), p + 1, v % 256)

\* BytePacketBuffer::read
read(b) ==
  IF b.st # "ok" THEN b
  ELSE IF b.pos > BUF_LEN THEN [b EXCEPT !.st = EndOfBuffer]
  ELSE IF ~InBounds(b.pos) THEN [b EXCEPT !.st = Panic]
  ELSE [b EXCEPT !.val = byte(b.buf, b.pos), !.pos = b.pos + 1]

\* BytePacketBuffer::get
get(b, p) ==
  IF b.st # "ok" THEN b
  ELSE IF p > BUF_LEN THEN [b EXCEPT !.st = EndOfBuffer]
  ELSE IF ~InBounds(p) THEN [b EXCEPT !.st = Panic]
  ELSE [b EXCEPT !.val = byte(b.buf, p)]

\* BytePacketBuffer::get_range; str is the slice
get_range(b, start, len) ==
  IF b.st # "ok" THEN b
  ELSE IF start + len > BUF_LEN THEN [b EXCEPT !.st = EndOfBuffer]
  ELSE [b EXCEPT !.str = [i \in 1 .. len |-> byte(b.buf, start + i - 1)]]

\* BytePacketBuffer::read_u16
read_u16(b) ==
  LET b1 == read(b)
      b2 == read(b1)
  IN IF b2.st # "ok" THEN b2
     ELSE [b2 EXCEPT !.val = BitOr(b1.val * 256, b2.val)]

\* BytePacketBuffer::read_u32; a u32 is the pair of its 16-bit halves,
\* <<v >> 16, v & 0xFFFF>>
read_u32(b) ==
  LET b1 == read(b)
      b2 == read(b1)
      b3 == read(b2)
      b4 == read(b3)
  IN IF b4.st # "ok" THEN b4
     ELSE [b4 EXCEPT !.wide = <<BitOr(b1.val * 256, b2.val),
                                BitOr(b3.val * 256, b4.val)>>]

\* BytePacketBuffer::write
write(b, v) ==
  IF b.st # "ok" THEN b
  ELSE IF b.pos > BUF_LEN THEN [b EXCEPT !.st = EndOfBuffer]
  ELSE IF ~InBounds(b.pos) THEN [b EXCEPT !.st = Panic]
  ELSE [b EXCEPT !.buf[b.pos + 1] = v, !.pos = b.pos + 1]

\* BytePacketBuffer::write_u8
write_u8(b, v) == write(b, v)

\* BytePacketBuffer::write_u16
write_u16(b, v) ==
  write(write(b, AsU8(v \div 256)), v % 256)

\* BytePacketBuffer::write_u32
write_u32(b, v) ==
  write(write(write(write(b, BitAnd(v[1] \div 256, 255)),
                    BitAnd(v[1], 255)),
              BitAnd(v[2] \div 256, 255)),
        BitAnd(v[2], 255))

(***************************************************************************)
(* Strings.  A String is a sequence of code points.  The inputs of the     *)
(* model hold ASCII and U+FFFD only; label bytes read from a buffer are    *)
(* ASCII or bytes that start no valid UTF-8 sequence (0x80..0xC1,          *)
(* 0xF5..0xFF), for which the three conversions below are exact.           *)
(***************************************************************************)

\* the '.' that qname.split('.') splits on and that delim holds
Dot == 46

\* str::as_bytes of one char: its UTF-8 encoding (code points below 2^16)
Utf8(c) ==
  IF c < 128 THEN <<c>>
  ELSE IF c < 2048 THEN <<192 + (c \div 64), 128 + (c % 64)>>
  ELSE <<224 + (c \div 4096), 128 + ((c \div 64) % 64), 128 + (c % 64)>>

RECURSIVE as_bytes(_)
\* str::as_bytes: the encodings of the chars, in order (the string is
\* halved to keep the evaluation shallow)
as_bytes(s) ==
  IF s = <<>> THEN <<>>
  ELSE IF Len(s) = 1 THEN Utf8(s[1])
  ELSE LET h == Len(s) \div 2
       IN as_bytes(SubSeq(s, 1, h)) \o as_bytes(SubSeq(s, h + 1, Len(s)))

\* String::from_utf8_lossy: an ASCII byte is its char, a byte that starts
\* no valid sequence becomes U+FFFD
from_utf8_lossy(bytes) ==
  [i \in 1 .. Len(bytes) |-> IF bytes[i] < 128 THEN bytes[i] ELSE 65533]

\* str::to_lowercase
to_lowercase(s) ==
  [i \in 1 .. Len(s) |-> IF s[i] \in 65 .. 90 THEN s[i] + 32 ELSE s[i]]

RECURSIVE split(_, _)
\* str::split(sep): the pieces between separators, at least one piece
split(s, sep) ==
  IF \A i \in 1 .. Len(s) : s[i] # sep THEN <<s>>
  ELSE LET k == CHOOSE i \in 1 .. Len(s) :
                  s[i] = sep /\ \A j \in 1 .. (i - 1) : s[j] # sep
       IN <<SubSeq(s, 1, k - 1)>> \o split(SubSeq(s, k + 1, Len(s)), sep)

\* an ends_with that holds for equal strings only
ends_with_whole(s, suffix) == s = suffix

\* str::ends_with
ends_with(s, suffix) ==
  /\ Len(suffix) <= Len(s)
  /\ SubSeq(s, Len(s) - Len(suffix) + 1, Len(s)) = suffix

(***************************************************************************)
(* Name codec                                                              *)
(***************************************************************************)

\* read_qname, the locals before the loop
qname_start(b, outstr) ==
  [b |-> b, pos |-> b.pos, jumped |-> FALSE, jumps_performed |-> 0,
   delim |-> <<>>, outstr |-> outstr, done |-> b.st # "ok"]

\* a read_qname whose guard against cyclic packets never fires
jump_limit_never(s) == FALSE

\* read_qname, the guard at the top of the loop
jump_limit_exceeded(s) == s.jumps_performed > max_jumps

\* a read_qname that moves the shared cursor at every jump
qname_every_jump_seeks(s, g) == seek(g, s.pos + 2)

\* read_qname, `if !jumped { self.seek(pos + 2)?; }` at a pointer
qname_first_jump_seek(s, g) == IF ~s.jumped THEN seek(g, s.pos + 2) ELSE g

\* a read_qname that ends by moving the shared cursor to the local one
qname_last_seek_always(s, g) == seek(g, s.pos + 1)

\* read_qname, `if !jumped { self.seek(pos)?; }` after the loop, pos
\* being one past the zero byte
qname_last_seek(s, g) == IF ~s.jumped THEN seek(g, s.pos + 1) ELSE g

\* read_qname, one iteration of the loop (the final seek is part of the
\* iteration that breaks)
qname_iter(s) ==
  IF jump_limit_exceeded(s)
  THEN [s EXCEPT !.b.st = JumpLimit, !.done = TRUE]
  ELSE
    LET g == get(s.b, s.pos)
        len == g.val
    IN IF g.st # "ok" THEN [s EXCEPT !.b = g, !.done = TRUE]
       ELSE IF BitAnd(len, 192) = 192
       THEN LET g2 == get(qname_first_jump_seek(s, g), s.pos + 1)
            IN IF g2.st # "ok" THEN [s EXCEPT !.b = g2, !.done = TRUE]
               ELSE [s EXCEPT !.b = g2,
                              !.pos = BitOr(AsU16(BitXor(len, 192) * 256), g2.val),
                              !.jumped = TRUE,
                              !.jumps_performed = s.jumps_performed + 1]
       ELSE IF len = 0
       THEN [s EXCEPT !.b = qname_last_seek(s, g),
                      !.pos = s.pos + 1,
                      !.done = TRUE]
       ELSE LET r == get_range(g, s.pos + 1, len)
            IN IF r.st # "ok"
               THEN [s EXCEPT !.b = r, !.pos = s.pos + 1,
                              !.outstr = s.outstr \o s.delim, !.done = TRUE]
               ELSE [s EXCEPT !.b = r,
                              !.outstr = s.outstr \o s.delim
                                         \o to_lowercase(from_utf8_lossy(r.str)),
                              !.delim = <<Dot>>,
                              !.pos = s.pos + 1 + len]

\* more iterations than any read_qname takes: at most max_jumps + 1
\* jumps, and fewer than BUF_LEN + 2 labels between two jumps
MaxIter == 4096

RECURSIVE qname_loop(_, _)
\* read_qname, the loop: iterations until one breaks or returns (at most
\* n; the count is halved to keep the evaluation shallow)
qname_loop(s, n) ==
  IF s.done \/ n = 0 THEN s
  ELSE IF n = 1 THEN qname_iter(s)
  ELSE qname_loop(qname_loop(s, n \div 2), n - (n \div 2))

RECURSIVE qname_run(_, _)
\* read_qname, the loop run to its end: n iterations, then twice as many,
\* until one breaks or returns (short names are evaluated shallowly)
qname_run(s, n) ==
  IF s.done THEN s
  ELSE IF n >= MaxIter THEN qname_loop(s, n)
  ELSE qname_run(qname_loop(s, n), 2 * n)

\* BytePacketBuffer::read_qname: the buffer afterwards, str the string
\* outstr holds
read_qname(b, outstr) ==
  IF b.st # "ok" THEN b
  ELSE LET ret(s) == [s.b EXCEPT !.str = s.outstr]
       IN ret(qname_run(qname_start(b, outstr), 1))

RECURSIVE write_bytes(_, _)
\* the loop `for b in label.as_bytes() { self.write_u8(*b)?; }`
\* (the bytes are halved to keep the evaluation shallow)
write_bytes(b, bytes) ==
  IF bytes = <<>> \/ b.st # "ok" THEN b
  ELSE IF Len(bytes) = 1 THEN write_u8(b, bytes[1])
  ELSE LET h == Len(bytes) \div 2
       IN write_bytes(write_bytes(b, SubSeq(bytes, 1, h)),
                      SubSeq(bytes, h + 1, Len(bytes)))

\* a length test that lets a label of 64 bytes through
label_too_long_above_64(len) == len > 64

\* write_qname, the test len > 0x3f on a label
label_too_long(len) == len > 63

RECURSIVE write_labels(_, _)
\* the loop over qname.split('.') of write_qname
write_labels(b, labels) ==
  IF labels = <<>> \/ b.st # "ok" THEN b
  ELSE LET bytes == as_bytes(Head(labels))
           len == Len(bytes)
       IN IF label_too_long(len) THEN [b EXCEPT !.st = LabelTooLong]
          ELSE write_labels(write_bytes(write_u8(b, AsU8(len)), bytes),
                            Tail(labels))

\* BytePacketBuffer::write_qname
write_qname(b, qname) ==
  write_u8(write_labels(b, split(qname, Dot)), 0)

(***************************************************************************)
(* Header codec                                                            *)
(***************************************************************************)

\* ResultCode::from_num; a ResultCode is its discriminant 0..5
rescode_from_num(num) == IF num \in 1 .. 5 THEN num ELSE 0

\* DnsHeader::new
header_new ==
  [id |-> 0, recursion_desired |-> FALSE, truncated_message |-> FALSE,
   authoritative_answer |-> FALSE, opcode |-> 0, response |-> FALSE,
   rescode |-> 0, checking_disabled |-> FALSE, authed_data |-> FALSE,
   z |-> FALSE, recursion_available |-> FALSE, questions |-> 0,
   answers |-> 0, authoritative_entries |-> 0, resource_entries |-> 0]

\* DnsHeader::read, the assignments from the two flags bytes
header_read_flags(h, flags) ==
  LET a == AsU8(flags \div 256)
      fb == AsU8(BitAnd(flags, 255))
  IN [h EXCEPT
        !.recursion_desired = BitAnd(a, 1) > 0,
        !.truncated_message = BitAnd(a, 2) > 0,
        !.authoritative_answer = BitAnd(a, 4) > 0,
        !.opcode = BitAnd(a \div 8, 15),
        !.response = BitAnd(a, 128) > 0,
        !.rescode = rescode_from_num(BitAnd(fb, 15)),
        !.checking_disabled = BitAnd(fb, 16) > 0,
        !.authed_data = BitAnd(fb, 32) > 0,
        !.z = BitAnd(fb, 64) > 0,
        !.recursion_available = BitAnd(fb, 128) > 0]

\* DnsHeader::read: [b, h], the buffer and the header afterwards; each
\* field is assigned when its read succeeded
header_read(h, b) ==
  LET got(hh, bb, f(_, _)) == IF bb.st = "ok" THEN f(hh, bb.val) ELSE hh
      set_id(hh, v) == [hh EXCEPT !.id = v]
      set_qd(hh, v) == [hh EXCEPT !.questions = v]
      set_an(hh, v) == [hh EXCEPT !.answers = v]
      set_ns(hh, v) == [hh EXCEPT !.authoritative_entries = v]
      set_ar(hh, v) == [hh EXCEPT !.resource_entries = v]
      r6(h5, b6) == [b |-> b6, h |-> got(h5, b6, set_ar)]
      r5(h4, b5) == r6(got(h4, b5, set_ns), read_u16(b5))
      r4(h3, b4) == r5(got(h3, b4, set_an), read_u16(b4))
      r3(h2, b3) == r4(got(h2, b3, set_qd), read_u16(b3))
      r2(h1, b2) == r3(got(h1, b2, header_read_flags), read_u16(b2))
      r1(h0, b1) == r2(got(h0, b1, set_id), read_u16(b1))
  IN r1(h, read_u16(b))

\* a first flags byte with truncated_message and authoritative_answer
\* in each other's bit
header_flags1_swapped(h) ==
  BitOr(BitOr(BitOr(BitOr(BoolU8(h.recursion_desired),
                          BoolU8(h.truncated_message) * 4),
                    BoolU8(h.authoritative_answer) * 2),
              AsU8(h.opcode * 8)),
        AsU8(BoolU8(h.response) * 128))

\* DnsHeader::write, the first flags byte
header_flags1(h) ==
  BitOr(BitOr(BitOr(BitOr(BoolU8(h.recursion_desired),
                          BoolU8(h.truncated_message) * 2),
                    BoolU8(h.authoritative_answer) * 4),
              AsU8(h.opcode * 8)),
        AsU8(BoolU8(h.response) * 128))

\* DnsHeader::write, the second flags byte
header_flags2(h) ==
  BitOr(BitOr(BitOr(BitOr(h.rescode,
                          BoolU8(h.checking_disabled) * 16),
                    BoolU8(h.authed_data) * 32),
              BoolU8(h.z) * 64),
        BoolU8(h.recursion_available) * 128)

\* DnsHeader::write
header_write(h, b) ==
  LET b1 == write_u16(b, h.id)
      b2 == write_u8(b1, header_flags1(h))
      b3 == write_u8(b2, header_flags2(h))
      b4 == write_u16(b3, h.questions)
      b5 == write_u16(b4, h.answers)
      b6 == write_u16(b5, h.authoritative_entries)
  IN write_u16(b6, h.resource_entries)

(***************************************************************************)
(* Questions and records                                                   *)
(***************************************************************************)

\* the QueryType variants: [tag, num], num the payload of Unknown
QT(tag) == [tag |-> tag, num |-> 0]

QTUnknown(x) == [tag |-> "Unknown", num |-> x]

\* QueryType::as_num
as_num(q) ==
  CASE q.tag = "Unknown" -> q.num
    [] q.tag = "A" -> 1
    [] q.tag = "NS" -> 2
    [] q.tag = "CNAME" -> 5
    [] q.tag = "MX" -> 15
    [] q.tag = "AAAA" -> 28

\* QueryType::from_num
from_num(num) ==
  CASE num = 1 -> QT("A")
    [] num = 2 -> QT("NS")
    [] num = 5 -> QT("CNAME")
    [] num = 15 -> QT("MX")
    [] num = 28 -> QT("AAAA")
    [] OTHER -> QTUnknown(num)

\* DnsQuestion::new
question_new(name, qtype) == [name |-> name, qtype |-> qtype]

\* DnsQuestion::read: [b, q]
question_read(q, b) ==
  LET r2(q1, b2) ==
        [b |-> read_u16(b2),
         q |-> IF b2.st = "ok" THEN [q1 EXCEPT !.qtype = from_num(b2.val)]
               ELSE q1]
      r1(b1) ==
        r2(IF b1.st = "ok" THEN [q EXCEPT !.name = b1.str] ELSE q,
           read_u16(b1))
  IN r1(read_qname(b, q.name))

\* DnsQuestion::write
question_write(q, b) ==
  write_u16(write_u16(write_qname(b, q.name), as_num(q.qtype)), 1)

\* the DnsRecord variants
RecUnknown(domain, qtype, data_len, ttl) ==
  [tag |-> "Unknown", domain |-> domain, qtype |-> qtype,
   data_len |-> data_len, ttl |-> ttl]

RecA(domain, addr, ttl) ==
  [tag |-> "A", domain |-> domain, addr |-> addr, ttl |-> ttl]

RecNS(domain, host, ttl) ==
  [tag |-> "NS", domain |-> domain, host |-> host, ttl |-> ttl]

RecCNAME(domain, host, ttl) ==
  [tag |-> "CNAME", domain |-> domain, host |-> host, ttl |-> ttl]

RecMX(domain, priority, host, ttl) ==
  [tag |-> "MX", domain |-> domain, priority |-> priority, host |-> host,
   ttl |-> ttl]

RecAAAA(domain, addr, ttl) ==
  [tag |-> "AAAA", domain |-> domain, addr |-> addr, ttl |-> ttl]

\* Ipv4Addr::new from the four bytes of raw_addr; an address is its octets
ipv4_from_u32(raw) ==
  <<BitAnd(raw[1] \div 256, 255), BitAnd(raw[1], 255),
    BitAnd(raw[2] \div 256, 255), BitAnd(raw[2], 255)>>

\* Ipv6Addr::new from four u32 words; an address is its eight segments
ipv6_from_u32(r1, r2, r3, r4) ==
  <<r1[1], r1[2], r2[1], r2[2], r3[1], r3[2], r4[1], r4[2]>>

\* what record_read yields next to a failed buffer
no_record == RecUnknown(<<>>, 0, 0, <<0, 0>>)

\* a DnsRecord::read that skips the declared data length for every type
record_read_data_skips_declared(b5, domain, qtype_num, ttl, data_len) ==
  [b |-> step(b5, data_len),
   rec |-> RecUnknown(domain, qtype_num, data_len, ttl)]

\* DnsRecord::read, the match on the query type
record_read_data(b5, domain, qtype_num, ttl, data_len) ==
  LET qtype == from_num(qtype_num)
      out(r, rec) == [b |-> r, rec |-> IF r.st = "ok" THEN rec ELSE no_record]
      a(r) == out(r, RecA(domain, ipv4_from_u32(r.wide), ttl))
      ns(r) == out(r, RecNS(domain, r.str, ttl))
      cname(r) == out(r, RecCNAME(domain, r.str, ttl))
      mx2(p, r) == out(r, RecMX(domain, p.val, r.str, ttl))
      mx(p) == mx2(p, read_qname(p, <<>>))
      aaaa4(r1, r2, r3, r4) ==
        out(r4, RecAAAA(domain,
                        ipv6_from_u32(r1.wide, r2.wide, r3.wide, r4.wide),
                        ttl))
      aaaa3(r1, r2, r3) == aaaa4(r1, r2, r3, read_u32(r3))
      aaaa2(r1, r2) == aaaa3(r1, r2, read_u32(r2))
      aaaa1(r1) == aaaa2(r1, read_u32(r1))
  IN CASE qtype.tag = "A" -> a(read_u32(b5))
       [] qtype.tag = "NS" -> ns(read_qname(b5, <<>>))
       [] qtype.tag = "CNAME" -> cname(read_qname(b5, <<>>))
       [] qtype.tag = "MX" -> mx(read_u16(b5))
       [] qtype.tag = "AAAA" -> aaaa1(read_u32(b5))
       [] OTHER ->
            [b |-> step(b5, data_len),
             rec |-> RecUnknown(domain, qtype_num, data_len, ttl)]

\* DnsRecord::read: [b, rec]; rec is meaningful when b.st = "ok"
record_read(b) ==
  LET r5(b1, b2, b4, b5) ==
        IF b5.st # "ok" THEN [b |-> b5, rec |-> no_record]
        ELSE record_read_data(b5, b1.str, b2.val, b4.wide, b5.val)
      r4(b1, b2, b4) == r5(b1, b2, b4, read_u16(b4))
      r2(b1, b2) == r4(b1, b2, read_u32(read_u16(b2)))
      r1(b1) == r2(b1, read_u16(b1))
  IN r1(read_qname(b, <<>>))

\* DnsRecord::write, the fields every written variant starts with
record_write_head(b, domain, qtype, ttl) ==
  write_u32(write_u16(write_u16(write_qname(b, domain), as_num(qtype)), 1), ttl)

\* a backpatch that counts the two bytes of the placeholder as well
record_patch_len_with_placeholder(b, pos) ==
  IF b.st # "ok" THEN b
  ELSE set_u16(b, pos, AsU16(b.pos - pos))

\* DnsRecord::write, the backpatch of the length placeholder at pos
record_patch_len(b, pos) ==
  IF b.st # "ok" THEN b
  ELSE set_u16(b, pos, AsU16(b.pos - (pos + 2)))

RECURSIVE write_segments(_, _)
\* the loop `for octet in &addr.segments() { buffer.write_u16(*octet)?; }`
write_segments(b, segs) ==
  IF segs = <<>> \/ b.st # "ok" THEN b
  ELSE write_segments(write_u16(b, Head(segs)), Tail(segs))

\* an Unknown arm that writes the record's fixed fields with no data
record_write_unknown_emits(rec, b) ==
  write_u16(record_write_head(b, rec.domain, QTUnknown(rec.qtype), rec.ttl), 0)

\* DnsRecord::write, the Unknown arm: the record is skipped
record_write_unknown(rec, b) == b

\* DnsRecord::write, the match on the variant
record_write_body(rec, b) ==
  CASE rec.tag = "A" ->
         LET h == write_u16(record_write_head(b, rec.domain, QT("A"), rec.ttl), 4)
         IN write_u8(write_u8(write_u8(write_u8(h, rec.addr[1]), rec.addr[2]),
                              rec.addr[3]),
                     rec.addr[4])
    [] rec.tag = "NS" ->
         LET rest(h) ==
               record_patch_len(write_qname(write_u16(h, 0), rec.host), h.pos)
         IN rest(record_write_head(b, rec.domain, QT("NS"), rec.ttl))
    [] rec.tag = "CNAME" ->
         LET rest(h) ==
               record_patch_len(write_qname(write_u16(h, 0), rec.host), h.pos)
         IN rest(record_write_head(b, rec.domain, QT("CNAME"), rec.ttl))
    [] rec.tag = "MX" ->
         LET rest(h) ==
               record_patch_len(
                 write_qname(write_u16(write_u16(h, 0), rec.priority),
                             rec.host),
                 h.pos)
         IN rest(record_write_head(b, rec.domain, QT("MX"), rec.ttl))
    [] rec.tag = "AAAA" ->
         LET h == write_u16(record_write_head(b, rec.domain, QT("AAAA"), rec.ttl), 16)
         IN write_segments(h, rec.addr)
    [] rec.tag = "Unknown" -> record_write_unknown(rec, b)

\* DnsRecord::write: the buffer afterwards, val the returned byte count
record_write(rec, b) ==
  IF b.st # "ok" THEN b
  ELSE LET ret(r) == IF r.st # "ok" THEN r ELSE [r EXCEPT !.val = r.pos - b.pos]
       IN ret(record_write_body(rec, b))

(***************************************************************************)
(* DnsPacket                                                               *)
(***************************************************************************)

\* DnsPacket::new
packet_new ==
  [header |-> header_new, questions |-> <<>>, answers |-> <<>>,
   authorities |-> <<>>, resources |-> <<>>]

RECURSIVE read_questions(_, _, _)
\* the loop `for _ in 0..result.header.questions` of from_buffer: [b, list]
\* (the count is halved to keep the evaluation shallow)
read_questions(b, n, acc) ==
  IF n = 0 \/ b.st # "ok" THEN [b |-> b, list |-> acc]
  ELSE IF n = 1
  THEN LET push(r) ==
             [b |-> r.b,
              list |-> IF r.b.st = "ok" THEN Append(acc, r.q) ELSE acc]
       IN push(question_read(question_new(<<>>, QTUnknown(0)), b))
  ELSE LET rest(h) == read_questions(h.b, n - (n \div 2), h.list)
       IN rest(read_questions(b, n \div 2, acc))

RECURSIVE read_records(_, _, _)
\* one of the three record loops of from_buffer: [b, list]
\* (the count is halved to keep the evaluation shallow)
read_records(b, n, acc) ==
  IF n = 0 \/ b.st # "ok" THEN [b |-> b, list |-> acc]
  ELSE IF n = 1
  THEN LET push(r) ==
             [b |-> r.b,
              list |-> IF r.b.st = "ok" THEN Append(acc, r.rec) ELSE acc]
       IN push(record_read(b))
  ELSE LET rest(h) == read_records(h.b, n - (n \div 2), h.list)
       IN rest(read_records(b, n \div 2, acc))

\* DnsPacket::from_buffer: [b, packet]; the packet is returned only when
\* b.st = "ok", on an Err the caller gets no packet
from_buffer(b) ==
  LET r5(h, qs, an, au, re) ==
        [b |-> re.b,
         packet |-> IF re.b.st = "ok"
                    THEN [header |-> h, questions |-> qs.list,
                          answers |-> an.list, authorities |-> au.list,
                          resources |-> re.list]
                    ELSE packet_new]
      r4(h, qs, an, au) ==
        r5(h, qs, an, au, read_records(au.b, h.resource_entries, <<>>))
      r3(h, qs, an) ==
        r4(h, qs, an, read_records(an.b, h.authoritative_entries, <<>>))
      r2(h, qs) == r3(h, qs, read_records(qs.b, h.answers, <<>>))
      r1(hr) == r2(hr.h, read_questions(hr.b, hr.h.questions, <<>>))
  IN r1(header_read(header_new, b))

RECURSIVE write_questions(_, _)
\* the loop `for question in &self.questions` of DnsPacket::write
write_questions(b, qs) ==
  IF qs = <<>> \/ b.st # "ok" THEN b
  ELSE write_questions(question_write(Head(qs), b), Tail(qs))

RECURSIVE write_records(_, _)
\* one of the three record loops of DnsPacket::write
write_records(b, recs) ==
  IF recs = <<>> \/ b.st # "ok" THEN b
  ELSE write_records(record_write(Head(recs), b), Tail(recs))

\* a DnsPacket::write that trusts the counts the header holds
packet_counts_kept(p) == p

\* a DnsPacket::write that counts only the records it will serialize
packet_counts_writable(p) ==
  LET n(recs) == Cardinality({i \in 1 .. Len(recs) : recs[i].tag # "Unknown"})
  IN [p EXCEPT !.header.questions = AsU16(Len(p.questions)),
               !.header.answers = AsU16(n(p.answers)),
               !.header.authoritative_entries = AsU16(n(p.authorities)),
               !.header.resource_entries = AsU16(n(p.resources))]

\* DnsPacket::write, the four assignments to the header counts
packet_counts(p) ==
  [p EXCEPT !.header.questions = AsU16(Len(p.questions)),
            !.header.answers = AsU16(Len(p.answers)),
            !.header.authoritative_entries = AsU16(Len(p.authorities)),
            !.header.resource_entries = AsU16(Len(p.resources))]

\* DnsPacket::write: [b, packet], the buffer and the packet afterwards
packet_write(p, b) ==
  LET body(p1) ==
        [b |-> write_records(
                 write_records(
                   write_records(
                     write_questions(header_write(p1.header, b), p1.questions),
                     p1.answers),
                   p1.authorities),
                 p1.resources),
         packet |-> p1]
  IN body(packet_counts(p))

(***************************************************************************)
(* Name-server helpers                                                     *)
(***************************************************************************)

\* a list back to front
Reverse(s) == [i \in 1 .. Len(s) |-> s[Len(s) + 1 - i]]

RECURSIVE first_a(_)
\* the filter_map(..).next() over a record list that keeps A records:
\* <<addr>> for Some(addr), <<>> for None
first_a(recs) ==
  IF recs = <<>> THEN <<>>
  ELSE IF Head(recs).tag = "A" THEN <<Head(recs).addr>>
  ELSE first_a(Tail(recs))

\* a get_random_a that looks in the additional list
get_random_a_from_resources(p) == first_a(p.resources)

\* DnsPacket::get_random_a
get_random_a(p) == first_a(p.answers)

RECURSIVE ns_filter(_, _)
\* the filter_map and filter of get_ns over a list of records
ns_filter(recs, qname) ==
  IF recs = <<>> THEN <<>>
  ELSE LET r == Head(recs)
           rest == ns_filter(Tail(recs), qname)
       IN IF r.tag = "NS" /\ ends_with(qname, r.domain)
          THEN <<[domain |-> r.domain, host |-> r.host]>> \o rest
          ELSE rest

\* DnsPacket::get_ns: the (domain, host) pairs the iterator yields, in order
get_ns(p, qname) == ns_filter(p.authorities, qname)

RECURSIVE glue_for(_, _)
\* the inner filter_map of get_resolved_ns: the addresses of the A records
\* of recs whose domain equals host, in order
glue_for(recs, host) ==
  IF recs = <<>> THEN <<>>
  ELSE LET r == Head(recs)
           rest == glue_for(Tail(recs), host)
       IN IF r.tag = "A" /\ r.domain = host THEN <<r.addr>> \o rest ELSE rest

RECURSIVE flat_map_glue(_, _)
\* the flat_map of get_resolved_ns over the pairs get_ns yields
flat_map_glue(pairs, resources) ==
  IF pairs = <<>> THEN <<>>
  ELSE glue_for(resources, Head(pairs).host)
       \o flat_map_glue(Tail(pairs), resources)

\* Iterator::next on a fresh iterator: <<x>> for Some(x), <<>> for None
next(items) == IF items = <<>> THEN <<>> ELSE <<Head(items)>>

\* a get_resolved_ns that scans the additional list first and, for each of
\* its A records, the name servers
get_resolved_ns_by_additional(p, qname) ==
  LET pairs == get_ns(p, qname)
      glued == SelectSeq(p.resources,
                         LAMBDA r : r.tag = "A"
                                    /\ \E i \in 1 .. Len(pairs) :
                                         pairs[i].host = r.domain)
  IN IF glued = <<>> THEN <<>> ELSE <<Head(glued).addr>>

\* DnsPacket::get_resolved_ns
get_resolved_ns(p, qname) ==
  next(flat_map_glue(get_ns(p, qname), p.resources))

RECURSIVE hosts_of(_)
\* the map(|(_, host)| host) of get_unresolved_ns
hosts_of(pairs) ==
  IF pairs = <<>> THEN <<>>
  ELSE <<Head(pairs).host>> \o hosts_of(Tail(pairs))

\* a get_unresolved_ns that picks the last qualifying name server
get_unresolved_ns_last(p, qname) ==
  next(hosts_of(Reverse(get_ns(p, qname))))

\* DnsPacket::get_unresolved_ns
get_unresolved_ns(p, qname) == next(hosts_of(get_ns(p, qname)))

(***************************************************************************)
(* State.  buffer is the BytePacketBuffer in use, packet the DnsPacket in  *)
(* use, input the value the caller started from, result the outcome of the *)
(* last call ([st, val]), qn the locals of a read_qname in progress, pc    *)
(* the caller's position.                                                  *)
(***************************************************************************)

\* the buffer as the next call finds it
Call(buf) ==
  [buf |-> buf.buf, pos |-> buf.pos, st |-> "ok", val |-> 0,
   wide |-> <<0, 0>>, str |-> <<>>]

\* the two fields a call leaves in the buffer
Store(b) == [buf |-> b.buf, pos |-> b.pos]

\* what a call returned
Outcome(st, val) == [st |-> st, val |-> val]

NoResult == Outcome("none", 0)

NoQn == qname_start([new EXCEPT !.st = "none", !.buf = <<>>], <<>>)

\* the caller resets the cursor before decoding what it encoded
Rewind(from, to) ==
  /\ pc = from
  /\ pc' = to
  /\ buffer' = Store(seek(Call(buffer), 0))
  /\ UNCHANGED <<input, packet, result, qn>>

(***************************************************************************)
(* Header round trip: DnsHeader::write into a fresh buffer, then           *)
(* DnsHeader::read from position 0.                                        *)
(***************************************************************************)

BOOL2 == {FALSE, TRUE}

\* opcode is a u8 field; 0..15 fit the four bits of the wire format
Opcodes == (0 .. 15) \cup {16, 17, 31, 128, 255}

\* id and the four counts
HeaderNums == {<<0, 0, 0, 0, 0>>, <<1, 2, 3, 4, 5>>,
               <<43981, 258, 772, 1286, 1800>>,
               <<65535, 65535, 65535, 65535, 65535>>}

MkHeader(n, rd, tc, aa, op, qr, rc, cd, ad, zz, ra) ==
  [id |-> n[1], recursion_desired |-> rd, truncated_message |-> tc,
   authoritative_answer |-> aa, opcode |-> op, response |-> qr,
   rescode |-> rc, checking_disabled |-> cd, authed_data |-> ad,
   z |-> zz, recursion_available |-> ra, questions |-> n[2],
   answers |-> n[3], authoritative_entries |-> n[4],
   resource_entries |-> n[5]]

\* every combination of the fields of flags byte 1, and every combination
\* of the fields of flags byte 2
Headers ==
  {MkHeader(n, rd, tc, aa, op, qr, rc, x, x, x, x) :
     n \in HeaderNums, rd \in BOOL2, tc \in BOOL2, aa \in BOOL2,
     op \in Opcodes, qr \in BOOL2, rc \in {0, 5}, x \in BOOL2}
  \cup
  {MkHeader(n, x, x, x, op, x, rc, cd, ad, zz, ra) :
     n \in HeaderNums, x \in BOOL2, op \in {0, 10}, rc \in 0 .. 5,
     cd \in BOOL2, ad \in BOOL2, zz \in BOOL2, ra \in BOOL2}

InitHeader ==
  /\ pc = "header"
  /\ input \in Headers
  /\ buffer = Store(new)
  /\ packet = packet_new
  /\ result = NoResult
  /\ qn = NoQn

HeaderWrite ==
  /\ pc = "header"
  /\ \E b \in {header_write(input, Call(buffer))} :
        /\ buffer' = Store(b)
        /\ result' = Outcome(b.st, 0)
        /\ pc' = IF b.st = "ok" THEN "header_written" ELSE "header_failed"
  /\ UNCHANGED <<input, packet, qn>>

HeaderRewind == Rewind("header_written", "header_rewound")

HeaderRead ==
  /\ pc = "header_rewound"
  /\ \E r \in {header_read(packet.header, Call(buffer))} :
        /\ buffer' = Store(r.b)
        /\ packet' = [packet EXCEPT !.header = r.h]
        /\ result' = Outcome(r.b.st, 0)
        /\ pc' = IF r.b.st = "ok" THEN "header_read" ELSE "header_failed"
  /\ UNCHANGED <<input, qn>>

NextHeader == HeaderWrite \/ HeaderRewind \/ HeaderRead

SpecHeader == InitHeader /\ [][NextHeader]_vars

FlagFields ==
  {"recursion_desired", "truncated_message", "authoritative_answer",
   "response", "checking_disabled", "authed_data", "z",
   "recursion_available"}

\* C5: for a header with a 4-bit opcode, DnsHeader::write followed by
\* DnsHeader::read recovers the same id, the same value of each of the
\* nine flag fields and the same four counts; a header with exactly one
\* flag set decodes to one with exactly that flag set
C5_HeaderRoundTrip ==
  (pc = "header_read" /\ input.opcode \in 0 .. 15) =>
    /\ packet.header = input
    /\ \A f \in FlagFields :
         ({g \in FlagFields : input[g]} = {f})
           => ({g \in FlagFields : packet.header[g]} = {f})

\* C5: a header with exactly one flag set, a non-zero opcode and a
\* non-zero response code has been written and read back
C5_Witness ==
  /\ pc = "header_read"
  /\ input.opcode = 15
  /\ input.rescode = 5
  /\ {g \in FlagFields : input[g]} = {"response"}
  /\ input.id = 43981

(***************************************************************************)
(* read_qname on untrusted buffers, one loop iteration per step.           *)
(***************************************************************************)

\* the longest chain of compression pointers among the inputs
MaxChain == 7

\* buf with bytes written at offset at
Patch(buf, at, bytes) ==
  [i \in 1 .. BUF_LEN |->
     IF i \in (at + 1) .. (at + Len(bytes)) THEN bytes[i - at] ELSE buf[i]]

\* a label on the wire
Lbl(bytes) == <<Len(bytes)>> \o bytes

\* a compression pointer to offset off
Ptr(off) == <<192 + (off \div 256), off % 256>>

\* n copies of byte c
Rep(n, c) == [i \in 1 .. n |-> c]

RECURSIVE ChainBytes(_, _)
\* k pointers, each to the two bytes after it, then the name "aB"
ChainBytes(at, k) ==
  IF k = 0 THEN Lbl(<<97, 66>>) \o <<0>>
  ELSE Ptr(at + 2) \o ChainBytes(at + 2, k - 1)

\* n one-byte labels "a"
Labels1(n) == [i \in 1 .. (2 * n) |-> IF i % 2 = 1 THEN 1 ELSE 97]

\* an input of read_qname: the buffer, the cursor, and what a walk from
\* the cursor meets: Ends(k) when it reaches the terminating zero after k
\* pointers, Cyclic when the pointers form a cycle, OffEnd when the walk
\* leaves the 512 bytes first
Ends(k) == [kind |-> "ends", hops |-> k]

Cyclic == [kind |-> "cyclic", hops |-> 0]

OffEnd == [kind |-> "off end", hops |-> 0]

QI(bytes, at, pos, walk) ==
  [buf |-> Patch(new.buf, at, bytes), pos |-> pos, walk |-> walk]

QnameInputs ==
  \* plain names
  {QI(n \o <<0>>, at, at, Ends(0)) :
     n \in {<<>>, Lbl(<<97>>), Lbl(<<65, 98>>) \o Lbl(<<67>>),
            Lbl(Rep(63, 88)), Lbl(<<97, 255, 66>>),
            Lbl(Rep(63, 97)) \o Lbl(Rep(63, 98)) \o Lbl(Rep(63, 99))},
     at \in {0, 12, 300}}
  \cup
  \* chains of k pointers
  {QI(ChainBytes(at, k), at, at, Ends(k)) : k \in 1 .. MaxChain, at \in {20, 490}}
  \cup
  \* a name that ends in a pointer to an earlier name
  {QI(Lbl(<<97>>) \o <<0>> \o Lbl(<<119>>) \o Ptr(40), 40, 43, Ends(1))}
  \cup
  \* cycles: a pointer to itself, two pointers to each other, a label
  \* followed by a pointer back to it
  {QI(Ptr(x), x, x, Cyclic) : x \in {0, 30, 510}}
  \cup {QI(Ptr(62) \o Ptr(60), 60, x, Cyclic) : x \in {60, 62}}
  \cup {QI(Lbl(<<97>>) \o Ptr(100), 100, x, Cyclic) : x \in {100, 102}}
  \cup
  \* walks that leave the buffer
  {QI(<<192>>, 511, 511, OffEnd),
   QI(Ptr(512), 8, 8, OffEnd),
   QI(Ptr(513), 8, 8, OffEnd),
   QI(Ptr(16383), 8, 8, OffEnd),
   QI(<<20, 97>>, 500, 500, OffEnd),
   QI(Lbl(Rep(62, 97)), 449, 449, OffEnd),
   QI(Labels1(6), 500, 500, OffEnd),
   QI(Labels1(100), 312, 312, OffEnd),
   QI(<<>>, 0, 512, OffEnd),
   QI(<<>>, 0, 513, OffEnd),
   QI(<<>>, 0, 70000, OffEnd)}

InitQname ==
  /\ pc = "qname"
  /\ input \in QnameInputs
  /\ buffer = [buf |-> input.buf, pos |-> input.pos]
  /\ packet = packet_new
  /\ result = NoResult
  /\ qn = NoQn

\* the call: the locals before the loop
QnameBegin ==
  /\ pc = "qname"
  /\ qn' = qname_start(Call(buffer), <<>>)
  /\ pc' = "qname_loop"
  /\ UNCHANGED <<input, buffer, packet, result>>

\* one iteration of the loop
QnameIter ==
  /\ pc = "qname_loop"
  /\ ~qn.done
  /\ qn' = qname_iter(qn)
  /\ buffer' = Store(qn'.b)
  /\ UNCHANGED <<pc, input, packet, result>>

\* the return
QnameReturn ==
  /\ pc = "qname_loop"
  /\ qn.done
  /\ result' = Outcome(qn.b.st, qn.outstr)
  /\ pc' = "qname_done"
  /\ UNCHANGED <<input, buffer, packet, qn>>

NextQname == QnameBegin \/ QnameIter \/ QnameReturn

SpecQname == InitQname /\ [][NextQname]_vars

\* the code is sequential: a call that can take a step takes it
SpecQnameFair == SpecQname /\ WF_vars(NextQname)

\* C3: read_qname terminates on every buffer and start position, never
\* performs more than max_jumps + 1 jumps, and fails whenever the name
\* takes more than max_jumps jumps; a cycle of pointers makes it fail
C3_QnameTerminates ==
  /\ <>(pc = "qname_done")
  /\ [](qn.jumps_performed <= max_jumps + 1)
  /\ []((pc = "qname_done" /\ qn.jumps_performed > max_jumps)
          => result.st = JumpLimit)
  /\ []((pc = "qname_done" /\ input.walk.kind = "ends"
          /\ input.walk.hops > max_jumps)
          => result.st = JumpLimit)
  /\ []((pc = "qname_done" /\ input.walk.kind = "cyclic"
          /\ input.pos < BUF_LEN - 1)
          => result.st = JumpLimit)
  /\ []((pc = "qname_done" /\ input.walk.kind = "ends"
          /\ input.walk.hops <= max_jumps)
          => result.st = "ok")

\* C3: a pointer at offset 30 that points to offset 30 has made read_qname
\* return the jump-limit failure
C3_Witness ==
  /\ pc = "qname_done"
  /\ input.walk = Cyclic
  /\ input.pos = 30
  /\ byte(input.buf, 30) = 192 /\ byte(input.buf, 31) = 30
  /\ result.st = JumpLimit
  /\ qn.jumps_performed = max_jumps + 1

(***************************************************************************)
(* Encoding: DnsPacket::write into a fresh buffer and DnsPacket::          *)
(* from_buffer of the result, DnsRecord::write and write_qname at a given  *)
(* cursor.                                                                 *)
(***************************************************************************)

\* the longest record list drawn from RecPool
MaxRecs == 2

\* "a.b", "Ab.C", "b", "Ns.b", "c.d", "e", "m", "Mail.m", "u", "x"
N_a_b == <<97, 46, 98>>

N_Ab_C == <<65, 98, 46, 67>>

N_b == <<98>>

N_Ns_b == <<78, 115, 46, 98>>

N_c_d == <<99, 46, 100>>

N_e == <<101>>

N_m == <<109>>

N_Mail_m == <<77, 97, 105, 108, 46, 109>>

N_u == <<117>>

N_x == <<120>>

\* the root name "", "a..b" and "a."
N_root == <<>>

N_a__b == <<97, 46, 46, 98>>

N_a_dot == <<97, 46>>

\* one label of n bytes c
L(n, c) == Rep(n, c)

\* one label of 64 bytes, and "b." followed by a label of 64 bytes
N_64 == L(64, 122)

N_b_64 == <<98, 46>> \o L(64, 122)

\* three labels of 63 bytes: 193 bytes on the wire
N_191 == L(63, 120) \o <<Dot>> \o L(63, 121) \o <<Dot>> \o L(63, 122)

\* a label of 63 bytes and one of n bytes: n + 66 bytes on the wire
N_fill(n) == L(63, 120) \o <<Dot>> \o L(n, 121)

R_A == RecA(N_a_b, <<1, 2, 3, 4>>, <<0, 3600>>)

R_NS == RecNS(N_b, N_Ns_b, <<0, 1>>)

R_CNAME == RecCNAME(N_c_d, N_e, <<1, 0>>)

R_MX == RecMX(N_m, 258, N_Mail_m, <<65535, 65535>>)

R_AAAA == RecAAAA(N_Ab_C, <<8193, 3512, 0, 0, 0, 0, 255, 1>>, <<0, 0>>)

R_Unknown == RecUnknown(N_u, 99, 7, <<0, 5>>)

R_root == RecA(N_root, <<9, 9, 9, 9>>, <<0, 2>>)

R_long == RecNS(N_b, N_b_64, <<0, 3>>)

R_Unknown_long == RecUnknown(N_64, 99, 0, <<0, 0>>)

RecPool ==
  {R_A, R_NS, R_CNAME, R_MX, R_AAAA, R_Unknown, R_root, R_long,
   R_Unknown_long}

\* the sequences over S of length at most n
SeqsUpTo(S, n) == UNION {[1 .. k -> S] : k \in 0 .. n}

\* headers of the messages; the second holds counts that match no list
MsgHeaders ==
  {[header_new EXCEPT !.id = 4660, !.recursion_desired = TRUE],
   [header_new EXCEPT !.id = 65535, !.response = TRUE, !.opcode = 2,
                      !.rescode = 3, !.recursion_available = TRUE,
                      !.questions = 7, !.answers = 9,
                      !.authoritative_entries = 11,
                      !.resource_entries = 13]}

QuestionLists ==
  {<<>>,
   <<question_new(N_Ab_C, QT("A"))>>,
   <<question_new(N_x, QTUnknown(99)), question_new(N_a_b, QT("MX"))>>}

Msg(h, qs, an, au, re) ==
  [header |-> h, questions |-> qs, answers |-> an, authorities |-> au,
   resources |-> re]

\* a list of records in one section, or spread over the three
Layouts(h, qs, s) ==
  {Msg(h, qs, s, <<>>, <<>>), Msg(h, qs, <<>>, s, <<>>),
   Msg(h, qs, <<>>, <<>>, s), Msg(h, qs, s, Reverse(s), s)}

\* messages of 12 + 2 * 197 + n + 70 bytes: 511, 512, 513 and 514 bytes
BigMessages ==
  {Msg(header_new,
       <<question_new(N_191, QT("A")), question_new(N_191, QT("NS")),
         question_new(N_fill(n), QT("A"))>>,
       <<>>, <<>>, <<>>) : n \in 35 .. 38}
  \cup
  {Msg(header_new, <<question_new(N_191, QT("A"))>>,
       <<RecNS(N_191, N_191, <<0, 1>>)>>, <<R_MX>>, <<R_Unknown>>)}

\* messages whose questions hold the root name, an empty label, a label
\* of 64 bytes, a query type in its Unknown spelling, and a header whose
\* opcode needs more than four bits
OddMessages ==
  {Msg(header_new, <<question_new(n, QT("A"))>>, <<R_A>>, <<>>, <<>>) :
     n \in {N_root, N_a__b, N_a_dot, N_64, N_b_64}}
  \cup
  {Msg(header_new, <<question_new(N_x, QTUnknown(1))>>, <<>>, <<>>, <<>>),
   Msg([header_new EXCEPT !.opcode = 17], <<question_new(N_x, QT("A"))>>,
       <<R_A>>, <<>>, <<>>)}

Messages ==
  UNION {Layouts(h, qs, s) :
           h \in MsgHeaders, qs \in QuestionLists,
           s \in SeqsUpTo(RecPool, MaxRecs)}
  \cup BigMessages \cup OddMessages

InitPacket ==
  /\ pc = "packet"
  /\ input \in Messages
  /\ buffer = Store(new)
  /\ packet = input
  /\ result = NoResult
  /\ qn = NoQn

\* packet.write(&mut buffer)
PacketWrite ==
  /\ pc = "packet"
  /\ \E r \in {packet_write(packet, Call(buffer))} :
        /\ buffer' = Store(r.b)
        /\ packet' = r.packet
        /\ result' = Outcome(r.b.st, 0)
        /\ pc' = IF r.b.st = "ok" THEN "packet_written" ELSE "packet_failed"
  /\ UNCHANGED <<input, qn>>

PacketRewind == Rewind("packet_written", "packet_rewound")

\* DnsPacket::from_buffer(&mut buffer)
PacketDecode ==
  /\ pc = "packet_rewound"
  /\ \E r \in {from_buffer(Call(buffer))} :
        /\ buffer' = Store(r.b)
        /\ packet' = r.packet
        /\ result' = Outcome(r.b.st, 0)
        /\ pc' = IF r.b.st = "ok" THEN "packet_decoded" ELSE "decode_failed"
  /\ UNCHANGED <<input, qn>>

\* where a record or a name is written: a fresh buffer, after a header,
\* near the end of the buffer, at the end and past it
StartPositions == {0, 12, 440, 500, 512, 600}

InitRecord ==
  /\ pc = "record"
  /\ \E rec \in RecPool \cup {RecNS(N_191, N_191, <<0, 1>>)}, at \in StartPositions :
       /\ input = [rec |-> rec, at |-> at]
       /\ buffer = [buf |-> [i \in 1 .. BUF_LEN |-> 170], pos |-> at]
  /\ packet = packet_new
  /\ result = NoResult
  /\ qn = NoQn

\* rec.write(&mut buffer)
RecordWrite ==
  /\ pc = "record"
  /\ \E b \in {record_write(input.rec, Call(buffer))} :
        /\ buffer' = Store(b)
        /\ result' = Outcome(b.st, b.val)
        /\ pc' = "record_written"
  /\ UNCHANGED <<input, packet, qn>>

WriteNames ==
  {N_a_b, N_Ab_C, N_root, N_a__b, N_a_dot, N_64, N_b_64, N_191,
   L(63, 120), L(65, 120), L(64, 120) \o <<Dot>> \o N_a_b,
   N_a_b \o <<Dot>> \o L(64, 120) \o <<Dot>> \o N_x,
   L(63, 120) \o <<Dot>> \o L(64, 121), <<Dot>> \o L(200, 120)}

InitWriteQname ==
  /\ pc = "wqname"
  /\ \E n \in WriteNames, at \in StartPositions :
       /\ input = [name |-> n, at |-> at]
       /\ buffer = [buf |-> new.buf, pos |-> at]
  /\ packet = packet_new
  /\ result = NoResult
  /\ qn = NoQn

\* buffer.write_qname(name)
WriteQname ==
  /\ pc = "wqname"
  /\ \E b \in {write_qname(Call(buffer), input.name)} :
        /\ buffer' = Store(b)
        /\ result' = Outcome(b.st, 0)
        /\ pc' = "wqname_done"
  /\ UNCHANGED <<input, packet, qn>>

InitEncode == InitPacket \/ InitRecord \/ InitWriteQname

NextEncode ==
  PacketWrite \/ PacketRewind \/ PacketDecode \/ RecordWrite \/ WriteQname

SpecEncode == InitEncode /\ [][NextEncode]_vars

\* the big-endian 16-bit number at bytes i and i + 1
U16At(buf, i) == byte(buf, i) * 256 + byte(buf, i + 1)

\* a name in lower case
Lower(n) == [i \in 1 .. Len(n) |-> IF n[i] \in 65 .. 90 THEN n[i] + 32 ELSE n[i]]

\* the name has a label of more than 63 bytes: 64 bytes in a row without
\* a dot
HasLongLabel(n) ==
  \E i \in 1 .. (Len(n) - 63) : \A j \in i .. (i + 63) : n[j] # Dot

\* the name has an empty label: it is the root name, starts or ends with
\* a dot, or holds two dots in a row
HasEmptyLabel(n) ==
  \/ n = <<>>
  \/ n[1] = Dot
  \/ n[Len(n)] = Dot
  \/ \E i \in 1 .. (Len(n) - 1) : n[i] = Dot /\ n[i + 1] = Dot

\* the records of the three record sections, and those that are written
AllRecords(m) ==
  {m.answers[i] : i \in 1 .. Len(m.answers)}
  \cup {m.authorities[i] : i \in 1 .. Len(m.authorities)}
  \cup {m.resources[i] : i \in 1 .. Len(m.resources)}

WrittenRecords(m) == {r \in AllRecords(m) : r.tag # "Unknown"}

\* the names a set of records holds: domains and embedded hosts
NamesOf(recs) ==
  {r.domain : r \in recs}
  \cup {r.host : r \in {x \in recs : x.tag \in {"NS", "CNAME", "MX"}}}

QuestionNames(m) == {m.questions[i].name : i \in 1 .. Len(m.questions)}

\* the number of Unknown records of a list
UnknownCount(recs) ==
  Cardinality({i \in 1 .. Len(recs) : recs[i].tag = "Unknown"})

\* the message without its Unknown records
Known(recs) == SelectSeq(recs, LAMBDA r : r.tag # "Unknown")

Stripped(m) ==
  [m EXCEPT !.answers = Known(@), !.authorities = Known(@),
            !.resources = Known(@)]

\* the bytes a name, a question and a record take on the wire
NameLen(n) == Len(n) + 2

RecordLen(r) ==
  CASE r.tag = "A" -> NameLen(r.domain) + 14
    [] r.tag = "AAAA" -> NameLen(r.domain) + 26
    [] r.tag \in {"NS", "CNAME"} -> NameLen(r.domain) + 10 + NameLen(r.host)
    [] r.tag = "MX" -> NameLen(r.domain) + 12 + NameLen(r.host)
    [] OTHER -> 0

QuestionLen(q) == NameLen(q.name) + 4

RECURSIVE QuestionsLen(_)
QuestionsLen(qs) ==
  IF qs = <<>> THEN 0 ELSE QuestionLen(Head(qs)) + QuestionsLen(Tail(qs))

RECURSIVE RecordsLen(_)
RecordsLen(recs) ==
  IF recs = <<>> THEN 0 ELSE RecordLen(Head(recs)) + RecordsLen(Tail(recs))

WireLen(m) ==
  12 + QuestionsLen(m.questions) + RecordsLen(m.answers)
  + RecordsLen(m.authorities) + RecordsLen(m.resources)

\* what decoding the encoding of m is to give: the header with the four
\* list lengths as counts, the questions and records in order, every name
\* in lower case
ExpectedRecord(r) ==
  IF r.tag \in {"NS", "CNAME", "MX"}
  THEN [r EXCEPT !.domain = Lower(@), !.host = Lower(@)]
  ELSE [r EXCEPT !.domain = Lower(@)]

Expected(m) ==
  [header |-> [m.header EXCEPT !.questions = Len(m.questions),
                               !.answers = Len(m.answers),
                               !.authoritative_entries = Len(m.authorities),
                               !.resource_entries = Len(m.resources)],
   questions |-> [i \in 1 .. Len(m.questions) |->
                    [m.questions[i] EXCEPT !.name = Lower(@)]],
   answers |-> [i \in 1 .. Len(m.answers) |-> ExpectedRecord(m.answers[i])],
   authorities |-> [i \in 1 .. Len(m.authorities) |->
                      ExpectedRecord(m.authorities[i])],
   resources |-> [i \in 1 .. Len(m.resources) |->
                    ExpectedRecord(m.resources[i])]]

\* a message built from the record variants the encoder writes: a 4-bit
\* opcode, no Unknown record, every query type in its own variant
Writable(m) ==
  /\ m.header.opcode \in 0 .. 15
  /\ WrittenRecords(m) = AllRecords(m)
  /\ \A i \in 1 .. Len(m.questions) :
       m.questions[i].qtype = from_num(as_num(m.questions[i].qtype))

\* C1: a message encoded with DnsPacket::write into a fresh buffer and
\* decoded with DnsPacket::from_buffer from position 0 comes back with
\* the same header flags, the four list lengths as counts, and the same
\* questions and records in order, names in lower case
C1_RoundTrip ==
  (pc \in {"packet_decoded", "decode_failed"} /\ Writable(input)) =>
    (pc = "packet_decoded" /\ packet = Expected(input))

\* the round trip of the messages whose names hold no empty label
C1_RoundTripNonEmptyLabels ==
  (/\ pc \in {"packet_decoded", "decode_failed"}
   /\ Writable(input)
   /\ \A n \in QuestionNames(input) \cup NamesOf(AllRecords(input)) :
        ~HasEmptyLabel(n)) =>
    (pc = "packet_decoded" /\ packet = Expected(input))

\* write_qname has room for the whole name from where it starts
HasRoom(at, n) == at + NameLen(n) <= BUF_LEN

\* write_qname fails with the label-too-long failure exactly for a name
\* with a label of more than 63 bytes, given room for the name
LabelRule ==
  /\ (pc = "wqname_done" /\ HasRoom(input.at, input.name)) =>
       ((result.st = LabelTooLong) <=> HasLongLabel(input.name))
  /\ (pc = "wqname_done" /\ result.st = LabelTooLong) =>
       HasLongLabel(input.name)

\* C4 as amended: write_qname fails with the label-too-long failure
\* exactly for a name with a label of more than 63 bytes (given room),
\* and a question or a record other than an Unknown record whose name or
\* host holds such a label makes DnsPacket::write fail
C4_LongLabelFails ==
  /\ LabelRule
  /\ (/\ pc \in {"packet_written", "packet_failed"}
      /\ \E n \in QuestionNames(input) \cup NamesOf(WrittenRecords(input)) :
           HasLongLabel(n)) =>
       (pc = "packet_failed" /\ result.st # "ok")

\* C4: a message whose authority NS record holds a host with a label of
\* 64 bytes has failed to encode with the label-too-long failure
C4_Witness ==
  /\ pc = "packet_failed"
  /\ result.st = LabelTooLong
  /\ input.questions # <<>>
  /\ input.authorities = <<R_long>>
  /\ HasLongLabel(R_long.host)

\* C4 as stated: every question or record, an Unknown record included,
\* whose name or host holds a label of more than 63 bytes makes
\* DnsPacket::write fail
C4_AnyRecordLongLabelFails ==
  /\ LabelRule
  /\ (/\ pc \in {"packet_written", "packet_failed"}
      /\ \E n \in QuestionNames(input) \cup NamesOf(AllRecords(input)) :
           HasLongLabel(n)) =>
       (pc = "packet_failed" /\ result.st # "ok")

\* C6: after DnsPacket::write the counts at bytes 4..11 of the output,
\* and the counts of the packet's header, are the lengths of the four
\* lists, whatever the header held before the call
C6_CountsOverwritten ==
  (pc = "packet_written" \/ (pc = "packet_failed" /\ result.st # Panic)) =>
    /\ U16At(buffer.buf, 4) = Len(input.questions)
    /\ U16At(buffer.buf, 6) = Len(input.answers)
    /\ U16At(buffer.buf, 8) = Len(input.authorities)
    /\ U16At(buffer.buf, 10) = Len(input.resources)
    /\ packet.header.questions = Len(input.questions)
    /\ packet.header.answers = Len(input.answers)
    /\ packet.header.authoritative_entries = Len(input.authorities)
    /\ packet.header.resource_entries = Len(input.resources)

\* C6: a message whose header held the counts 7, 9, 11 and 13 and whose
\* lists hold 2, 2, 0 and 0 entries has been encoded
C6_Witness ==
  /\ pc = "packet_written"
  /\ input.header.questions = 7 /\ input.header.answers = 9
  /\ input.header.authoritative_entries = 11
  /\ input.header.resource_entries = 13
  /\ Len(input.questions) = 2 /\ Len(input.answers) = 2
  /\ input.authorities = <<>> /\ input.resources = <<>>
  /\ U16At(buffer.buf, 4) = 2 /\ U16At(buffer.buf, 10) = 0

\* C7: DnsRecord::write of an Unknown record leaves the bytes and the
\* cursor of the buffer as they were, succeeds and returns 0
C7_UnknownWritesNothing ==
  (pc = "record_written" /\ input.rec.tag = "Unknown") =>
    /\ \A i \in 0 .. (BUF_LEN - 1) : byte(buffer.buf, i) = 170
    /\ buffer.pos = input.at
    /\ result = Outcome("ok", 0)

\* C7: an Unknown record has been written at position 12
C7_Witness ==
  /\ pc = "record_written"
  /\ input.rec = R_Unknown
  /\ input.at = 12
  /\ result.st = "ok"

\* C8: the encoding of a message with k Unknown records in a section
\* holds the full list length as that section's count and is, in every
\* other byte and in its length, the encoding of the message without its
\* Unknown records, whose count for the section is k less
C8_UnknownCounted ==
  pc = "packet_written" =>
    \E w \in {packet_write(Stripped(input), new)} :
      /\ w.b.st = "ok"
      /\ buffer.pos = w.b.pos
      /\ buffer.pos = WireLen(input)
      /\ \A i \in (0 .. (BUF_LEN - 1)) \ (4 .. 11) :
           byte(buffer.buf, i) = byte(w.b.buf, i)
      /\ U16At(buffer.buf, 6) = Len(input.answers)
      /\ U16At(buffer.buf, 8) = Len(input.authorities)
      /\ U16At(buffer.buf, 10) = Len(input.resources)
      /\ U16At(buffer.buf, 6) - U16At(w.b.buf, 6) = UnknownCount(input.answers)
      /\ U16At(buffer.buf, 8) - U16At(w.b.buf, 8)
           = UnknownCount(input.authorities)
      /\ U16At(buffer.buf, 10) - U16At(w.b.buf, 10)
           = UnknownCount(input.resources)

\* C8: a message whose answers are an Unknown record and an A record has
\* been encoded with an answer count of 2
C8_Witness ==
  /\ pc = "packet_written"
  /\ input.answers = <<R_Unknown, R_A>>
  /\ input.authorities = <<>>
  /\ UnknownCount(input.answers) = 1
  /\ U16At(buffer.buf, 6) = 2

\* C9: DnsPacket::write of a message whose wire form needs more than 512
\* bytes returns the buffer-bounds failure, with no access outside the
\* buffer
C9_OversizeRejected ==
  (/\ pc \in {"packet_written", "packet_failed"}
   /\ WireLen(input) > BUF_LEN
   /\ \A n \in QuestionNames(input) \cup NamesOf(WrittenRecords(input)) :
        ~HasLongLabel(n)) =>
    (pc = "packet_failed" /\ result.st = EndOfBuffer)

(***************************************************************************)
(* Decoding untrusted bytes: DnsPacket::from_buffer on crafted buffers,    *)
(* one read of a header, a question or a record per step, and each cursor  *)
(* accessor at positions around the end of the buffer.                     *)
(***************************************************************************)

\* the twelve bytes of a header with the four counts
Hdr(qd, an, ns, ar) ==
  <<0, 1, 1, 0, qd \div 256, qd % 256, an \div 256, an % 256,
    ns \div 256, ns % 256, ar \div 256, ar % 256>>

\* a question and a record on the wire
QBytes(name, qtype) == name \o <<qtype \div 256, qtype % 256, 0, 1>>

RBytes(name, qtype, data_len, data) ==
  name \o <<qtype \div 256, qtype % 256, 0, 1, 0, 0, 14, 16,
            data_len \div 256, data_len % 256>> \o data

\* "aB.c" and "ns.c" on the wire
W_aB_c == Lbl(<<97, 66>>) \o Lbl(<<99>>) \o <<0>>

W_ns_c == Lbl(<<110, 115>>) \o Ptr(15)

\* the type and the data of an A, an NS, a CNAME, an MX and an AAAA
\* record: 1.2.3.4, "ns", a pointer to the record's own name, priority
\* 10 and "m", and sixteen bytes of 7
MisdeclaredData ==
  {<<1, <<1, 2, 3, 4>>>>, <<2, Lbl(<<110, 115>>) \o <<0>>>>, <<5, Ptr(12)>>,
   <<15, <<0, 10>> \o Lbl(<<109>>) \o <<0>>>>, <<28, Rep(16, 7)>>}

\* declared data lengths: none, one that fits no type above, one that
\* reaches past the buffer
MisdeclaredLens == {0, 7, 600}

DI(bytes) == [buf |-> Patch(new.buf, 0, bytes), at |-> 0]

DecodeInputs ==
  \* nothing but counts: questions of 5 zero bytes, records of 11
  {DI(Hdr(qd, 0, 0, 0)) : qd \in {0, 1, 2, 99, 100, 101, 102, 65535}}
  \cup {DI(Hdr(0, an, 0, 0)) : an \in {1, 45, 46, 47}}
  \cup {DI(Hdr(1, 1, 1, 1)), DI(Hdr(0, 0, 45, 1)), DI(Hdr(0, 0, 0, 46))}
  \cup
  \* a response whose names are compressed
  {DI(Hdr(1, 2, 1, 1) \o QBytes(W_aB_c, 1)
      \o RBytes(Ptr(12), 1, 4, <<10, 0, 0, 1>>)
      \o RBytes(Ptr(12), 5, 2, Ptr(15))
      \o RBytes(Ptr(15), 2, 5, W_ns_c)
      \o RBytes(Ptr(tail), 28, 16, Rep(16, 7))) :
     tail \in {12, 15, 22, 58, 512}}
  \cup
  \* Unknown records whose declared length is skipped
  {DI(Hdr(0, 2, 0, 0) \o RBytes(<<0>>, 99, n, <<>>)) :
     n \in {0, 3, 477, 478, 479, 489, 490, 491, 65535}}
  \cup
  \* a record whose declared length is not what its type's format takes,
  \* then an Unknown record of three bytes and an A record
  {DI(Hdr(0, 1, 1, 1) \o RBytes(<<0>>, d[1], n, d[2])
      \o RBytes(<<0>>, 99, 3, <<1, 2, 3>>)
      \o RBytes(<<0>>, 1, 4, <<5, 6, 7, 8>>)) :
     d \in MisdeclaredData, n \in MisdeclaredLens}
  \cup
  \* names that run off the end, loop or point outside
  {DI(Hdr(1, 0, 0, 0) \o n) :
     n \in {Ptr(12), Ptr(14) \o Ptr(12), Ptr(512), Ptr(513), Ptr(16383),
            <<63>>, Labels1(250), Labels1(251), Lbl(Rep(63, 97)) \o Ptr(12)}}

InitDecode ==
  /\ pc = "decode"
  /\ input \in DecodeInputs
  /\ buffer = [buf |-> input.buf, pos |-> input.at]
  /\ packet = packet_new
  /\ result = NoResult
  /\ qn = NoQn

\* a from_buffer whose loop over the answers comes before the loop over
\* the questions
decode_next_answers_first(p) ==
  IF Len(p.answers) < p.header.answers THEN "decode_answers"
  ELSE IF Len(p.questions) < p.header.questions THEN "decode_questions"
  ELSE IF Len(p.authorities) < p.header.authoritative_entries
  THEN "decode_authorities"
  ELSE IF Len(p.resources) < p.header.resource_entries
  THEN "decode_resources"
  ELSE "decoded"

\* from_buffer, where the loops stand: in the first section that holds
\* fewer entries than the header counts, or at the return
decode_next(p) ==
  IF Len(p.questions) < p.header.questions THEN "decode_questions"
  ELSE IF Len(p.answers) < p.header.answers THEN "decode_answers"
  ELSE IF Len(p.authorities) < p.header.authoritative_entries
  THEN "decode_authorities"
  ELSE IF Len(p.resources) < p.header.resource_entries
  THEN "decode_resources"
  ELSE "decoded"

\* from_buffer after one read: on a failure the packet is dropped
Decoded(b, p) ==
  /\ buffer' = Store(b)
  /\ result' = Outcome(b.st, 0)
  /\ packet' = IF b.st = "ok" THEN p ELSE packet_new
  /\ pc' = IF b.st = "ok" THEN decode_next(p) ELSE "decode_failed"
  /\ UNCHANGED <<input, qn>>

\* DnsPacket::from_buffer, result.header.read(buffer)?
DecodeHeader ==
  /\ pc = "decode"
  /\ \E r \in {header_read(packet.header, Call(buffer))} :
       Decoded(r.b, [packet EXCEPT !.header = r.h])

\* DnsPacket::from_buffer, one pass of the loop over the questions
DecodeQuestion ==
  /\ pc = "decode_questions"
  /\ \E r \in {question_read(question_new(<<>>, QTUnknown(0)), Call(buffer))} :
       Decoded(r.b, [packet EXCEPT !.questions = Append(@, r.q)])

\* DnsPacket::from_buffer, one pass of the loop over the answers
DecodeAnswer ==
  /\ pc = "decode_answers"
  /\ \E r \in {record_read(Call(buffer))} :
       Decoded(r.b, [packet EXCEPT !.answers = Append(@, r.rec)])

\* DnsPacket::from_buffer, one pass of the loop over the authorities
DecodeAuthority ==
  /\ pc = "decode_authorities"
  /\ \E r \in {record_read(Call(buffer))} :
       Decoded(r.b, [packet EXCEPT !.authorities = Append(@, r.rec)])

\* DnsPacket::from_buffer, one pass of the loop over the resources
DecodeResource ==
  /\ pc = "decode_resources"
  /\ \E r \in {record_read(Call(buffer))} :
       Decoded(r.b, [packet EXCEPT !.resources = Append(@, r.rec)])

\* cursor positions and offsets around the end of the buffer
AccessPositions == {0, 1, 255, 508, 509, 510, 511, 512, 513, 514, 600}

\* byte i holds i % 251
AccessBuf == [i \in 1 .. BUF_LEN |-> (i - 1) % 251]

InitAccess ==
  /\ pc = "access"
  /\ \E at \in AccessPositions :
       /\ input = [buf |-> AccessBuf, at |-> at]
       /\ buffer = [buf |-> AccessBuf, pos |-> at]
  /\ packet = packet_new
  /\ result = NoResult
  /\ qn = NoQn

\* the caller keeps the outcome of one accessor call
Accessed(b) ==
  /\ buffer' = Store(b)
  /\ result' = Outcome(b.st, b.val)
  /\ pc' = "accessed"
  /\ UNCHANGED <<input, packet, qn>>

BufRead == pc = "access" /\ Accessed(read(Call(buffer)))

BufReadU16 == pc = "access" /\ Accessed(read_u16(Call(buffer)))

BufReadU32 == pc = "access" /\ Accessed(read_u32(Call(buffer)))

BufGet ==
  pc = "access" /\ \E i \in AccessPositions : Accessed(get(Call(buffer), i))

BufGetRange ==
  /\ pc = "access"
  /\ \E start \in AccessPositions, len \in {0, 1, 2, 4, 63, 512} :
       Accessed(get_range(Call(buffer), start, len))

BufStep ==
  pc = "access" /\ \E n \in {0, 1, 4, 512} : Accessed(step(Call(buffer), n))

BufSeek ==
  pc = "access" /\ \E i \in AccessPositions : Accessed(seek(Call(buffer), i))

InitUntrusted == InitDecode \/ InitAccess

NextUntrusted ==
  \/ DecodeHeader \/ DecodeQuestion \/ DecodeAnswer \/ DecodeAuthority
  \/ DecodeResource
  \/ BufRead \/ BufReadU16 \/ BufReadU32 \/ BufGet \/ BufGetRange
  \/ BufStep \/ BufSeek

SpecDecode == InitUntrusted /\ [][NextUntrusted]_vars

\* C2: from_buffer and the accessors read, read_u16, read_u32, get,
\* get_range, step and seek never panic: each call succeeds or returns
\* the out-of-bounds failure (from_buffer: or the jump-limit failure),
\* also at position 512
C2_DecodeNeverPanics ==
  /\ pc \in {"decoded", "decode_failed"} =>
       result.st \in {"ok", EndOfBuffer, JumpLimit}
  /\ pc = "accessed" => result.st \in {"ok", EndOfBuffer}

(***************************************************************************)
(* Name-server lookups on a decoded response: get_resolved_ns,             *)
(* get_unresolved_ns, get_ns and get_random_a.                             *)
(***************************************************************************)

\* the longest authority list and the longest additional list
MaxNs == 2

\* "ns1.b", "ns2.b", "ns3.c", "xb", "c", "B"
N_ns1_b == <<110, 115, 49, 46, 98>>

N_ns2_b == <<110, 115, 50, 46, 98>>

N_ns3_c == <<110, 115, 51, 46, 99>>

N_xb == <<120, 98>>

N_c == <<99>>

N_B == <<66>>

\* authority records: name servers of "b", of "c", of "B" and of the
\* root, and an A record
AuthorityPool ==
  {RecNS(N_b, N_ns1_b, <<0, 1>>), RecNS(N_b, N_ns2_b, <<0, 1>>),
   RecNS(N_c, N_ns3_c, <<0, 1>>), RecNS(N_B, N_ns3_c, <<0, 1>>),
   RecNS(N_root, N_ns3_c, <<0, 1>>), RecA(N_b, <<7, 7, 7, 7>>, <<0, 1>>)}

\* additional records: addresses of the name servers, and an AAAA record
AdditionalPool ==
  {RecA(N_ns1_b, <<1, 1, 1, 1>>, <<0, 1>>),
   RecA(N_ns1_b, <<1, 1, 1, 2>>, <<0, 1>>),
   RecA(N_ns2_b, <<2, 2, 2, 2>>, <<0, 1>>),
   RecA(N_ns3_c, <<3, 3, 3, 3>>, <<0, 1>>),
   RecAAAA(N_ns1_b, <<8193, 3512, 0, 0, 0, 0, 0, 1>>, <<0, 1>>)}

\* the names asked for: "a.b", "xb" and "c"
NsQnames == {N_a_b, N_xb, N_c}

InitNs ==
  /\ pc = "ns"
  /\ \E qname \in NsQnames, au \in SeqsUpTo(AuthorityPool, MaxNs),
        re \in SeqsUpTo(AdditionalPool, MaxNs) :
       \E an \in {Reverse(re), au} :
         /\ input = [qname |-> qname, answers |-> an, authorities |-> au,
                     resources |-> re]
         /\ packet = [packet_new EXCEPT !.answers = an, !.authorities = au,
                                        !.resources = re]
  /\ buffer = Store(new)
  /\ result = NoResult
  /\ qn = NoQn

\* the caller keeps what a lookup returned
Looked(to, val) ==
  /\ pc = "ns"
  /\ pc' = to
  /\ result' = Outcome("ok", val)
  /\ UNCHANGED <<input, buffer, packet, qn>>

GetResolvedNs == Looked("resolved", get_resolved_ns(packet, input.qname))

GetUnresolvedNs == Looked("unresolved", get_unresolved_ns(packet, input.qname))

GetNs == Looked("ns_listed", get_ns(packet, input.qname))

GetRandomA == Looked("random_a", get_random_a(packet))

NextNs == GetResolvedNs \/ GetUnresolvedNs \/ GetNs \/ GetRandomA

SpecNs == InitNs /\ [][NextNs]_vars

\* the name ends with the domain, byte for byte
IsSuffix(domain, qname) ==
  \E k \in 0 .. Len(qname) : SubSeq(qname, k + 1, Len(qname)) = domain

\* authority record i is an NS record whose domain the name ends with
Qualifies(i) ==
  /\ input.authorities[i].tag = "NS"
  /\ IsSuffix(input.authorities[i].domain, input.qname)

\* the pairs of a qualifying NS record and an additional A record for its
\* host
GluePairs ==
  {pr \in (1 .. Len(input.authorities)) \X (1 .. Len(input.resources)) :
     /\ Qualifies(pr[1])
     /\ input.resources[pr[2]].tag = "A"
     /\ input.resources[pr[2]].domain = input.authorities[pr[1]].host}

\* the first pair in authority order and then in additional order
FirstGluePair ==
  CHOOSE pr \in GluePairs :
    \A o \in GluePairs : pr[1] < o[1] \/ (pr[1] = o[1] /\ pr[2] <= o[2])

\* C10: get_resolved_ns returns the address of the first A record of the
\* additional list whose domain is the host of a qualifying NS authority
\* record, the NS records taken in authority order and for each the
\* additional list in order, and none exactly when there is no such pair
C10_ResolvedNsFirstGlue ==
  pc = "resolved" =>
    IF GluePairs = {} THEN result.val = <<>>
    ELSE result.val = <<input.resources[FirstGluePair[2]].addr>>

\* C10: the first name server's address comes second in the additional
\* list, after the second name server's, and is the one returned
C10_Witness ==
  /\ pc = "resolved"
  /\ input.qname = N_a_b
  /\ input.authorities =
       <<RecNS(N_b, N_ns1_b, <<0, 1>>), RecNS(N_b, N_ns2_b, <<0, 1>>)>>
  /\ input.resources =
       <<RecA(N_ns2_b, <<2, 2, 2, 2>>, <<0, 1>>),
         RecA(N_ns1_b, <<1, 1, 1, 1>>, <<0, 1>>)>>
  /\ FirstGluePair = <<1, 2>>
  /\ result.val = <<<<1, 1, 1, 1>>>>

\* the authority records that qualify, by index
Qualifying == {i \in 1 .. Len(input.authorities) : Qualifies(i)}

\* the least index of a non-empty set of indices
First(S) == CHOOSE i \in S : \A j \in S : i <= j

\* the additional list holds an A record for the host
Glued(host) ==
  \E j \in 1 .. Len(input.resources) :
    input.resources[j].tag = "A" /\ input.resources[j].domain = host

\* C11: get_unresolved_ns returns the host of the first NS authority
\* record, in authority order, whose domain the name ends with, when the
\* additional list holds no A record for that host, and none when no NS
\* authority record qualifies
C11_UnresolvedNsFirstHost ==
  pc = "unresolved" =>
    IF Qualifying = {} THEN result.val = <<>>
    ELSE ~Glued(input.authorities[First(Qualifying)].host)
           => result.val = <<input.authorities[First(Qualifying)].host>>

\* C11: a name server of "c" and then one of "b" are in the authority
\* list, the additional list holds no address of the second, and the
\* second's host has been returned for "a.b"
C11_Witness ==
  /\ pc = "unresolved"
  /\ input.qname = N_a_b
  /\ input.authorities =
       <<RecNS(N_c, N_ns3_c, <<0, 1>>), RecNS(N_b, N_ns1_b, <<0, 1>>)>>
  /\ input.resources = <<RecA(N_ns3_c, <<3, 3, 3, 3>>, <<0, 1>>)>>
  /\ First(Qualifying) = 2
  /\ ~Glued(N_ns1_b)
  /\ result.val = <<N_ns1_b>>

\* the (domain, host) pair of authority record i
NsPair(i) ==
  [domain |-> input.authorities[i].domain, host |-> input.authorities[i].host]

\* the place of qualifying record i among the qualifying records
Rank(i) == Cardinality({j \in Qualifying : j <= i})

\* C12: get_ns yields one (domain, host) pair for each authority record
\* that is an NS record whose domain the name ends with, in authority
\* order, and nothing else
C12_GetNsFiltersInOrder ==
  pc = "ns_listed" =>
    /\ Len(result.val) = Cardinality(Qualifying)
    /\ \A i \in Qualifying : result.val[Rank(i)] = NsPair(i)

\* C12: of an A record for "b" and a name server of "b", only the name
\* server has been yielded for "xb"
C12_Witness ==
  /\ pc = "ns_listed"
  /\ input.qname = N_xb
  /\ input.authorities =
       <<RecA(N_b, <<7, 7, 7, 7>>, <<0, 1>>), RecNS(N_b, N_ns2_b, <<0, 1>>)>>
  /\ result.val = <<[domain |-> N_b, host |-> N_ns2_b]>>

\* the A records of the answers list, by index
AnswerAs == {i \in 1 .. Len(input.answers) : input.answers[i].tag = "A"}

WireCounts ==
  [questions |-> U16At(input.buf, 4), answers |-> U16At(input.buf, 6),
   authorities |-> U16At(input.buf, 8), resources |-> U16At(input.buf, 10)]

\* the lengths of the four lists of the packet being decoded
ListLens ==
  [questions |-> Len(packet.questions), answers |-> Len(packet.answers),
   authorities |-> Len(packet.authorities),
   resources |-> Len(packet.resources)]

\* C13: from_buffer reads the header, then the questions, the answers,
\* the authority records and the additional records, each section
\* complete before the next begins; a packet is returned only with each
\* list as long as its count on the wire, and after a failed read no
\* packet, filled or half filled, is returned
C13_DecodeCountsInOrder ==
  /\ pc = "decode_questions" =>
       /\ ListLens.questions < WireCounts.questions
       /\ ListLens.answers = 0 /\ ListLens.authorities = 0
       /\ ListLens.resources = 0
  /\ pc = "decode_answers" =>
       /\ ListLens.questions = WireCounts.questions
       /\ ListLens.answers < WireCounts.answers
       /\ ListLens.authorities = 0 /\ ListLens.resources = 0
  /\ pc = "decode_authorities" =>
       /\ ListLens.questions = WireCounts.questions
       /\ ListLens.answers = WireCounts.answers
       /\ ListLens.authorities < WireCounts.authorities
       /\ ListLens.resources = 0
  /\ pc = "decode_resources" =>
       /\ ListLens.questions = WireCounts.questions
       /\ ListLens.answers = WireCounts.answers
       /\ ListLens.authorities = WireCounts.authorities
       /\ ListLens.resources < WireCounts.resources
  /\ pc = "decoded" =>
       /\ result.st = "ok"
       /\ ListLens = WireCounts
       /\ packet.header.questions = WireCounts.questions
       /\ packet.header.answers = WireCounts.answers
       /\ packet.header.authoritative_entries = WireCounts.authorities
       /\ packet.header.resource_entries = WireCounts.resources
  /\ pc = "decode_failed" => (result.st # "ok" /\ packet = packet_new)

\* C13: a response with one question, two answers, one authority record
\* and one additional record has been decoded
C13_Witness ==
  /\ pc = "decoded"
  /\ WireCounts = [questions |-> 1, answers |-> 2, authorities |-> 1,
                   resources |-> 1]
  /\ ListLens = WireCounts
  /\ packet.answers[2].tag = "CNAME"
  /\ packet.resources[1].tag = "AAAA"

RECURSIVE NameEnd(_, _)
\* where the name written at p ends in the buffer: past its first
\* compression pointer or, when it has none, past its terminating zero
NameEnd(buf, p) ==
  IF ~InBounds(p) THEN p
  ELSE IF byte(buf, p) >= 192 THEN p + 2
  ELSE IF byte(buf, p) = 0 THEN p + 1
  ELSE NameEnd(buf, p + 1 + byte(buf, p))

\* C15: after a successful read_qname the shared cursor is just past the
\* terminating zero byte when the name held no compression pointer, and
\* just past the first pointer when it held one or more; once a jump is
\* made, no later step of the call moves the shared cursor
C15_QnameCursor ==
  /\ []((pc = "qname_done" /\ result.st = "ok") =>
          /\ buffer.pos = NameEnd(input.buf, input.pos)
          /\ input.walk.hops = 0 =>
               (~qn.jumped /\ byte(input.buf, buffer.pos - 1) = 0)
          /\ input.walk.hops > 0 =>
               (qn.jumped /\ byte(input.buf, buffer.pos - 2) >= 192))
  /\ [][qn.jumped => buffer'.pos = buffer.pos]_vars

\* C15: a name reached through a chain of three pointers has been read
\* from position 20: the cursor is past the first pointer, at 22
C15_Witness ==
  /\ pc = "qname_done"
  /\ result.st = "ok"
  /\ input.pos = 20
  /\ input.walk = Ends(3)
  /\ qn.jumps_performed = 3
  /\ buffer.pos = 22

\* where DnsRecord::write puts the length placeholder of the record
\* written at input.at: after the name, the type, the class and the ttl
Placeholder == input.at + NameLen(input.rec.domain) + 8

\* the bytes an NS, CNAME or MX record holds after its placeholder
Payload(rec) ==
  IF rec.tag = "MX" THEN 2 + NameLen(rec.host) ELSE NameLen(rec.host)

\* C16: after a successful write of an NS, CNAME or MX record the 16-bit
\* big-endian number at the length placeholder is the number of bytes
\* written after it (the host name, after the priority for MX), the
\* cursor is at the end of the record, and the value returned is the end
\* position minus the start position
C16_LengthBackpatch ==
  (/\ pc = "record_written"
   /\ result.st = "ok"
   /\ input.rec.tag \in {"NS", "CNAME", "MX"}) =>
    /\ U16At(buffer.buf, Placeholder) = buffer.pos - (Placeholder + 2)
    /\ U16At(buffer.buf, Placeholder) = Payload(input.rec)
    /\ buffer.pos = input.at + RecordLen(input.rec)
    /\ result.val = buffer.pos - input.at
    /\ input.rec.tag = "MX" =>
         U16At(buffer.buf, Placeholder + 2) = input.rec.priority

\* C16: the MX record of "m", host "Mail.m", has been written at
\* position 12: ten bytes follow the placeholder at 23
C16_Witness ==
  /\ pc = "record_written"
  /\ result.st = "ok"
  /\ input.rec = R_MX
  /\ input.at = 12
  /\ Placeholder = 23
  /\ U16At(buffer.buf, 23) = 10
  /\ buffer.pos = 35
  /\ result.val = 23

\* the first flags byte of the header written: byte 2 of the buffer
Flags1 == byte(buffer.buf, 2)

\* C17: whatever the opcode field holds, DnsHeader::write puts
\* recursion_desired in bit 0 of flags byte 1, truncated_message in bit
\* 1, authoritative_answer in bit 2, the opcode in bits 3 to 6 and
\* response in bit 7: bit 7 is set exactly when response is
C17_Flags1Layout ==
  pc = "header_written" =>
    /\ Bit(Flags1, 0) = BoolU8(input.recursion_desired)
    /\ Bit(Flags1, 1) = BoolU8(input.truncated_message)
    /\ Bit(Flags1, 2) = BoolU8(input.authoritative_answer)
    /\ (Flags1 \div 8) % 16 = input.opcode % 16
    /\ Bit(Flags1, 7) = BoolU8(input.response)

\* for an opcode of four bits, flags byte 1 is laid out as above
C17_Flags1LayoutOpcode4Bits ==
  (pc = "header_written" /\ input.opcode \in 0 .. 15) =>
    /\ Bit(Flags1, 0) = BoolU8(input.recursion_desired)
    /\ Bit(Flags1, 1) = BoolU8(input.truncated_message)
    /\ Bit(Flags1, 2) = BoolU8(input.authoritative_answer)
    /\ (Flags1 \div 8) % 16 = input.opcode
    /\ Bit(Flags1, 7) = BoolU8(input.response)

\* where the record written at p ends by its type's format: the name,
\* ten bytes of type, class, ttl and data length, then four bytes for A,
\* sixteen for AAAA, a name for NS and CNAME, two bytes and a name for
\* MX, and the declared data length for any other type
RecordEnd(buf, p) ==
  LET data == NameEnd(buf, p) + 10
      qtype == U16At(buf, data - 10)
      declared == U16At(buf, data - 2)
  IN CASE qtype = 1 -> data + 4
       [] qtype = 28 -> data + 16
       [] qtype \in {2, 5} -> NameEnd(buf, data)
       [] qtype = 15 -> NameEnd(buf, data + 2)
       [] OTHER -> data + declared

\* the declared data length of the record written at p
DeclaredLen(buf, p) == U16At(buf, NameEnd(buf, p) + 8)

\* C18: a successful DnsRecord::read moves the cursor by exactly the
\* declared data length past the fixed fields for a record of unknown
\* type, and by what the format of the type takes for an A, AAAA, NS,
\* CNAME or MX record, whatever the declared data length is
C18_DeclaredLengthOnlyForUnknown ==
  [][(/\ pc \in {"decode_answers", "decode_authorities", "decode_resources"}
      /\ result'.st = "ok")
       => buffer'.pos = RecordEnd(buffer.buf, buffer.pos)]_vars

\* C18: an MX record that declares 600 bytes of data and holds 5, an
\* Unknown record of three bytes and an A record have been decoded, each
\* from where the one before ended
C18_Witness ==
  /\ pc = "decoded"
  /\ DeclaredLen(input.buf, 12) = 600
  /\ RecordEnd(input.buf, 12) = 28
  /\ packet.answers = <<RecMX(<<>>, 10, <<109>>, <<0, 3600>>)>>
  /\ packet.authorities = <<RecUnknown(<<>>, 99, 3, <<0, 3600>>)>>
  /\ packet.resources = <<RecA(<<>>, <<5, 6, 7, 8>>, <<0, 3600>>)>>
  /\ buffer.pos = 57

(***************************************************************************)
(* Reading: DnsPacket::from_buffer one read per step, and read_qname one   *)
(* loop iteration per step, on the crafted buffers of both.                *)
(***************************************************************************)

InitRead == InitDecode \/ InitQname

NextRead ==
  \/ DecodeHeader \/ DecodeQuestion \/ DecodeAnswer \/ DecodeAuthority
  \/ DecodeResource
  \/ QnameBegin \/ QnameIter \/ QnameReturn

SpecRead == InitRead /\ [][NextRead]_vars

\* C19: no step of from_buffer, and no iteration of a read_qname that
\* follows compression pointers to earlier offsets, changes a byte of
\* the buffer or moves the shared cursor backwards, whether the call
\* succeeds or fails
C19_ReadOnlyMonotoneCursor ==
  [][buffer'.buf = buffer.buf /\ buffer'.pos >= buffer.pos]_vars

\* C19: the last record of a decoded response is named by a pointer to
\* offset 22, where a pointer to offset 12 stands: both jumps go back,
\* and the cursor has ended past the record, at 97, over unchanged bytes
C19_Witness ==
  /\ pc = "decoded"
  /\ byte(input.buf, 69) = 192 /\ byte(input.buf, 70) = 22
  /\ byte(input.buf, 22) = 192 /\ byte(input.buf, 23) = 12
  /\ packet.resources[1].domain = <<97, 98, 46, 99>>
  /\ buffer.buf = input.buf
  /\ buffer.pos = 97

====
